---- MODULE Spec2Model ----
(***************************************************************************)
(* Model of scripts/pdf_to_csv.py: the line scan of parse_first_email, the *)
(* truncation passes of remove_trailing_text and the batch loop that fills *)
(* emails / failed and writes the CSV and the statistics file.             *)
(*                                                                         *)
(* Python strings are TLA+ strings; the string helpers below compute what  *)
(* str.lower, str.find, str.strip, str.replace and the regular expressions *)
(* of the script compute, character by character.                          *)
(***************************************************************************)
EXTENDS Integers, Sequences, FiniteSets, TLC

\* ------------------------------------------------------------------------
\* Python string primitives
\* ------------------------------------------------------------------------

\* s[i:j] with 0-based bounds 0 <= i; as in Python, j is clamped to len(s)
Slice(s, i, j) ==
    SubSeq(s, i + 1, IF j < Len(s) THEN j ELSE Len(s))

\* s[i:i+1]: the character at the 0-based index i, "" past the end
At(s, i) ==
    Slice(s, i, i + 1)

\* s[i:]
From_(s, i) ==
    Slice(s, i, Len(s))

UpperChars ==
    "ABCDEFGHIJKLMNOPQRSTUVWXYZ"

LowerChars ==
    "abcdefghijklmnopqrstuvwxyz"

DigitChars ==
    "0123456789"

\* the ASCII characters 32 (space) to 95 (underscore) in code-point order
AsciiLow ==
    " !\"#$%&'()*+,-./0123456789:;<=>?@ABCDEFGHIJKLMNOPQRSTUVWXYZ[\\]^_"

\* the ASCII characters 97 (a) to 126 (tilde) in code-point order
AsciiHigh ==
    "abcdefghijklmnopqrstuvwxyz{|}~"

\* the characters of a string, as a set
CharsOf(chars) ==
    { At(chars, i) : i \in 0..(Len(chars) - 1) }

\* 0-based position of the character c in the string chars
IndexIn(chars, c) ==
    CHOOSE i \in 0..(Len(chars) - 1) : At(chars, i) = c

UpperSet ==
    CharsOf(UpperChars)

DigitSet ==
    CharsOf(DigitChars)

\* the class \w of the re module
WordSet ==
    CharsOf(UpperChars) \cup CharsOf(LowerChars) \cup CharsOf(DigitChars) \cup {"_"}

\* str.isspace for one character; also the class \s of the re module
SpaceSet ==
    {" ", "\t", "\n", "\r"}

\* the lower-case letter of every upper-case letter
LowerOf ==
    [c \in UpperSet |-> At(LowerChars, IndexIn(UpperChars, c))]

\* ord(c) for the characters that occur in the model
OrdOf ==
    [c \in CharsOf(AsciiLow) \cup CharsOf(AsciiHigh) \cup {"\t", "\n", "\r"} |->
        CASE c = "\t" -> 9
          [] c = "\n" -> 10
          [] c = "\r" -> 13
          [] c \in CharsOf(AsciiHigh) -> 97 + IndexIn(AsciiHigh, c)
          [] OTHER -> 32 + IndexIn(AsciiLow, c)]

Ord(c) ==
    OrdOf[c]

IsDigit(c) ==
    c \in DigitSet

IsSpace(c) ==
    c \in SpaceSet

IsWord(c) ==
    c \in WordSet

LowerChar(c) ==
    IF c \in UpperSet THEN LowerOf[c] ELSE c

RECURSIVE lower(_)
\* str.lower
lower(s) ==
    IF Len(s) <= 1 THEN LowerChar(s)
    ELSE lower(Slice(s, 0, Len(s) \div 2)) \o lower(Slice(s, Len(s) \div 2, Len(s)))

\* str.startswith
startswith(s, prefix) ==
    /\ Len(s) >= Len(prefix)
    /\ Slice(s, 0, Len(prefix)) = prefix

\* str.find: the lowest 0-based index at which sub occurs in s, else -1
find(s, sub) ==
    LET hits == { i \in 0..(Len(s) - Len(sub)) : Slice(s, i, i + Len(sub)) = sub }
    IN  IF hits = {} THEN -1
        ELSE CHOOSE i \in hits : \A j \in hits : i <= j

RECURSIVE lstrip(_)
lstrip(s) ==
    IF s # "" /\ IsSpace(At(s, 0)) THEN lstrip(From_(s, 1)) ELSE s

RECURSIVE rstrip(_)
rstrip(s) ==
    IF s # "" /\ IsSpace(At(s, Len(s) - 1)) THEN rstrip(Slice(s, 0, Len(s) - 1)) ELSE s

\* str.strip() without an argument
strip(s) ==
    rstrip(lstrip(s))

RECURSIVE lstrip_char(_, _)
lstrip_char(s, c) ==
    IF s # "" /\ At(s, 0) = c THEN lstrip_char(From_(s, 1), c) ELSE s

RECURSIVE rstrip_char(_, _)
rstrip_char(s, c) ==
    IF s # "" /\ At(s, Len(s) - 1) = c THEN rstrip_char(Slice(s, 0, Len(s) - 1), c) ELSE s

\* str.strip(c) for a one-character argument
strip_char(s, c) ==
    rstrip_char(lstrip_char(s, c), c)

RECURSIVE replace(_, _, _)
\* str.replace(old, new): every non-overlapping occurrence, left to right
replace(s, old, new) ==
    IF s = "" THEN ""
    ELSE IF startswith(s, old) THEN new \o replace(From_(s, Len(old)), old, new)
    ELSE At(s, 0) \o replace(From_(s, 1), old, new)

\* line.split(":", 1)[1] for a line that contains a colon
after_colon(s) ==
    From_(s, find(s, ":") + 1)

RECURSIVE StrLess(_, _)
\* a < b on Python strings: lexicographic by code point
StrLess(a, b) ==
    IF b = "" THEN FALSE
    ELSE IF a = "" THEN TRUE
    ELSE IF At(a, 0) # At(b, 0) THEN Ord(At(a, 0)) < Ord(At(b, 0))
    ELSE StrLess(From_(a, 1), From_(b, 1))

\* ------------------------------------------------------------------------
\* clean_text
\* ------------------------------------------------------------------------

RECURSIVE sub_escapes(_)
\* re.sub(r"=\d{2,3}", "", text): "=" and two digits, greedily a third
sub_escapes(s) ==
    IF s = "" THEN ""
    ELSE IF /\ Len(s) >= 3
            /\ At(s, 0) = "="
            /\ IsDigit(At(s, 1))
            /\ IsDigit(At(s, 2))
         THEN IF Len(s) >= 4 /\ IsDigit(At(s, 3))
              THEN sub_escapes(From_(s, 4))
              ELSE sub_escapes(From_(s, 3))
    ELSE At(s, 0) \o sub_escapes(From_(s, 1))

RECURSIVE sub_spaces(_)
\* re.sub(r"\s+", " ", text): every maximal run of whitespace becomes " "
sub_spaces(s) ==
    IF s = "" THEN ""
    ELSE IF IsSpace(At(s, 0)) THEN " " \o sub_spaces(lstrip(s))
    ELSE At(s, 0) \o sub_spaces(From_(s, 1))

clean_text(text) ==
    LET t1 == replace(text, "=br>", "\n")
        t2 == sub_escapes(t1)
        t3 == replace(t2, "=8E", "")
        t4 == sub_spaces(t3)
        t5 == replace(t4, "\r\n", "\n")
    IN  strip(t5)

\* ------------------------------------------------------------------------
\* normalize_date
\* ------------------------------------------------------------------------

\* Python's None, and a value that is not None
None ==
    << >>

Some(v) ==
    << v >>

\* parser.parse(date_str, fuzzy=True) of dateutil followed by the conversion
\* to UTC and isoformat(), on the date strings of the model: <<raw, iso>>.
\* On every other string of the model the parser finds no date and raises.
ParsedDates ==
    { << "Jan 5 2024 10:00", "2024-01-05T10:00:00+00:00" >>,
      << "5 Jan 2024 12:00 +0200", "2024-01-05T10:00:00+00:00" >>,
      << "Mar 3 2023 09:30", "2023-03-03T09:30:00+00:00" >> }

normalize_date(date_str) ==
    IF \E p \in ParsedDates : p[1] = date_str
    THEN Some((CHOOSE p \in ParsedDates : p[1] = date_str)[2])
    ELSE None

\* utc_date or raw_date
or_else(opt, dflt) ==
    IF opt # None /\ opt[1] # "" THEN opt[1] ELSE dflt

\* ------------------------------------------------------------------------
\* parse_first_email: the body of the loop over the lines
\* ------------------------------------------------------------------------

EmptyHeaders ==
    [From |-> "", To |-> "", Sent |-> "", Subject |-> "", Content |-> ""]

\* the tests of the header keywords, on l = line.lower()
is_from_line(l) ==
    startswith(l, "from:")

is_to_line(l) ==
    startswith(l, "to:")

is_sent_line(l) ==
    startswith(l, "sent:") \/ startswith(l, "date:")

is_subject_line(l) ==
    startswith(l, "subject:")

\* the value a From line carries: clean_text(line[5:].strip().strip('"'))
from_value(line) ==
    clean_text(strip_char(strip(From_(line, 5)), "\""))

\* the value a To line carries: clean_text(line[3:].strip().strip('"'))
to_value(line) ==
    clean_text(strip_char(strip(From_(line, 3)), "\""))

\* raw_date = clean_text(line.split(":", 1)[1].strip().strip('"'))
raw_date(line) ==
    clean_text(strip_char(strip(after_colon(line)), "\""))

\* date_or_raw without the fallback to raw_date
date_or_nothing(raw) ==
    or_else(normalize_date(raw), "")

\* utc_date or raw_date, for a given raw_date
date_or_raw(raw) ==
    or_else(normalize_date(raw), raw)

\* the value a Sent or Date line carries
sent_value(line) ==
    date_or_raw(raw_date(line))

\* the value a Subject line carries
subject_value(line) ==
    clean_text(strip_char(strip(after_colon(line)), "\""))

\* the condition of the break for mails of the crown princess,
\* on sender = headers["From"].lower() and l = line.lower()
princess_stop(sender, l) ==
    /\ find(sender, "kronprinsessen") # -1
    /\ find(l, "den") # -1
    /\ find(l, "skrev") # -1

\* epstein_stop without the test of the line of asterisks
epstein_stop_on_phrase_only(sender, l) ==
    /\ find(sender, "epstein") # -1
    /\ find(l, "the information contained in this communication is") # -1

\* the condition of the break for mails of epstein
epstein_stop(sender, l) ==
    /\ find(sender, "epstein") # -1
    /\ \/ find(l, "*****************************") # -1
       \/ find(l, "the information contained in this communication is") # -1

\* headers_found with the test of Sent left out
headers_found_without_sent(h) ==
    h.From # "" /\ h.To # ""

\* "If all header fields are found, the rest is content"
headers_found(h) ==
    h.From # "" /\ h.To # "" /\ h.Sent # ""

\* captures with a To line taken only once From is set
captures_from_first(h, l) ==
    \/ is_from_line(l) /\ h.From = ""
    \/ is_to_line(l) /\ h.To = "" /\ h.From # ""
    \/ is_sent_line(l) /\ h.Sent = ""
    \/ is_subject_line(l) /\ h.Subject = ""

\* the line is taken as the value of a header field that is still empty
captures(h, l) ==
    \/ is_from_line(l) /\ h.From = ""
    \/ is_to_line(l) /\ h.To = ""
    \/ is_sent_line(l) /\ h.Sent = ""
    \/ is_subject_line(l) /\ h.Subject = ""

\* the headers after a line that is taken as a header value
capture(h, line, l) ==
    IF is_from_line(l) /\ h.From = ""
        THEN [h EXCEPT !.From = from_value(line)]
    ELSE IF is_to_line(l) /\ h.To = ""
        THEN [h EXCEPT !.To = to_value(line)]
    ELSE IF is_sent_line(l) /\ h.Sent = ""
        THEN [h EXCEPT !.Sent = sent_value(line)]
    ELSE [h EXCEPT !.Subject = subject_value(line)]

\* stops with the sender markers looked up in From as it is written
stops_case_sensitive(h, l) ==
    princess_stop(h.From, l) \/ epstein_stop(h.From, l)

\* one of the two breaks is taken
stops(h, l) ==
    princess_stop(lower(h.From), l) \/ epstein_stop(lower(h.From), l)

\* add_content without the separator
add_content_without_separator(h, line) ==
    [h EXCEPT !.Content = h.Content \o clean_text(line)]

\* headers["Content"] += " \n" + clean_text(line)
add_content(h, line) ==
    [h EXCEPT !.Content = h.Content \o " \n" \o clean_text(line)]

\* scan_stripped with every line that starts with a header keyword skipped
scan_stripped_skipping_keywords(h, line, l) ==
    IF captures(h, l) THEN [headers |-> capture(h, line, l), stop |-> FALSE]
    ELSE IF is_from_line(l) \/ is_to_line(l) \/ is_sent_line(l) \/ is_subject_line(l)
        THEN [headers |-> h, stop |-> FALSE]
    ELSE IF stops(h, l) THEN [headers |-> h, stop |-> TRUE]
    ELSE IF headers_found(h) THEN [headers |-> add_content(h, line), stop |-> FALSE]
    ELSE [headers |-> h, stop |-> FALSE]

\* the loop body on the stripped, non-empty line and l = line.lower()
scan_stripped(h, line, l) ==
    IF captures(h, l) THEN [headers |-> capture(h, line, l), stop |-> FALSE]
    ELSE IF stops(h, l) THEN [headers |-> h, stop |-> TRUE]
    ELSE IF headers_found(h) THEN [headers |-> add_content(h, line), stop |-> FALSE]
    ELSE [headers |-> h, stop |-> FALSE]

\* One iteration of "for line in lines": the headers after it, and whether
\* the iteration left the loop with break.
scan_line(h, raw) ==
    IF strip(raw) = "" THEN [headers |-> h, stop |-> FALSE]
    ELSE scan_stripped(h, strip(raw), lower(strip(raw)))

\* scan_result with the test of Sent left out
scan_result_without_sent(h) ==
    IF h.From = "" \/ h.To = "" THEN None ELSE Some(h)

\* "Return None if From or To or Sent is missing", else the headers
scan_result(h) ==
    IF h.From = "" \/ h.To = "" \/ h.Sent = "" THEN None ELSE Some(h)

RECURSIVE scan_from(_, _, _)
\* after the iteration on line i with the outcome r: the loop is left by
\* break, or it goes on with the lines after line i
scan_after(r, text, i) ==
    IF r.stop THEN [headers |-> r.headers, idx |-> i]
    ELSE scan_from(r.headers, text, i)

\* the loop over lines[i+1..], started with the headers h: the headers at
\* the end of the loop and the number of lines the loop has taken
scan_from(h, text, i) ==
    IF i >= Len(text) THEN [headers |-> h, idx |-> i]
    ELSE scan_after(scan_line(h, text[i + 1]), text, i + 1)

\* the headers at the end of the loop of parse_first_email
scan_all(text) ==
    scan_from(EmptyHeaders, text, 0)

\* parse_first_email on a text given as text.splitlines()
parse_first_email(text) ==
    scan_result(scan_all(text).headers)

\* ------------------------------------------------------------------------
\* remove_trailing_text
\* ------------------------------------------------------------------------

\* cut_at keeping what follows the index: full_email[index:]
cut_at_keeping_tail(s, index) ==
    IF index # -1 THEN Slice(s, index, Len(s)) ELSE s

\* full_email[:index] when the search found something, else full_email
cut_at(s, index) ==
    IF index # -1 THEN Slice(s, 0, index) ELSE s

\* no "\n" in s[a:b]: what ".*?" can match
no_newline(s, a, b) ==
    find(Slice(s, a, b), "\n") = -1

\* \b at position p of s
boundary(s, p) ==
    (p > 0 /\ IsWord(At(s, p - 1))) # (p < Len(s) /\ IsWord(At(s, p)))

\* the least element of a set of positions, -1 for the empty set:
\* match.span(0)[0] of re.search, or no match
first_of(starts) ==
    IF starts = {} THEN -1
    ELSE CHOOSE i \in starts : \A j \in starts : i <= j

\* r"Den.*?kl\..*?skrev" with re.IGNORECASE matches from position i of the
\* string whose lower-case form is l
norwegian_reply_at(l, i) ==
    /\ Slice(l, i, i + 3) = "den"
    /\ \E j \in (i + 3)..(Len(l) - 3) :
          /\ Slice(l, j, j + 3) = "kl."
          /\ no_newline(l, i + 3, j)
          /\ \E k \in (j + 3)..(Len(l) - 5) :
                /\ Slice(l, k, k + 5) = "skrev"
                /\ no_newline(l, j + 3, k)

\* r"\bOn\s+.*?\bwrote:?\b" with re.IGNORECASE matches from position i of the
\* string whose lower-case form is l (\b and \s do not depend on the case):
\* \s+ takes l[i+2:a], .*? takes l[a:w], "wrote" is l[w:w+5]
english_reply_at(l, i) ==
    /\ Slice(l, i, i + 2) = "on"
    /\ boundary(l, i)
    /\ \E a \in (i + 3)..Len(l) :
          /\ \A x \in (i + 2)..(a - 1) : IsSpace(At(l, x))
          /\ \E w \in a..(Len(l) - 5) :
                /\ Slice(l, w, w + 5) = "wrote"
                /\ no_newline(l, a, w)
                /\ boundary(l, w)
                /\ \/ boundary(l, w + 5)
                   \/ At(l, w + 5) = ":" /\ boundary(l, w + 6)

norwegian_starts(l) ==
    { i \in 0..(Len(l) - 1) : norwegian_reply_at(l, i) }

english_starts(l) ==
    { i \in 0..(Len(l) - 1) : english_reply_at(l, i) }

\* re.search(reply_patterns[0], full_email, re.IGNORECASE): start or -1
search_norwegian_reply(s) ==
    first_of(norwegian_starts(lower(s)))

\* re.search(reply_patterns[1], full_email, re.IGNORECASE): start or -1
search_english_reply(s) ==
    first_of(english_starts(lower(s)))

\* cut_disclaimer without the nested "please note" pass
cut_disclaimer_only(s) ==
    cut_at(s, find(lower(s), "the information contained in this"))

\* the disclaimer pass, with its nested "please note" pass
cut_disclaimer(s) ==
    LET disclaimer_index == find(lower(s), "the information contained in this")
    IN  IF disclaimer_index # -1
        THEN LET t == Slice(s, 0, disclaimer_index)
             IN  cut_at(t, find(lower(t), "please note"))
        ELSE s

\* str.rfind: the highest 0-based index at which sub occurs in s, else -1
rfind(s, sub) ==
    LET hits == { i \in 0..(Len(s) - Len(sub)) : Slice(s, i, i + Len(sub)) = sub }
    IN  IF hits = {} THEN -1
        ELSE CHOOSE i \in hits : \A j \in hits : i >= j

\* cut_sent_from cutting at the last "Sent from my ..." instead of the first
cut_sent_from_last(s) ==
    cut_at(s, rfind(lower(s), "sent from my "))

\* Remove after and including "Sent from my ..."
cut_sent_from(s) ==
    cut_at(s, find(lower(s), "sent from my "))

\* Remove after and including "Sendt fra min ..."
cut_sendt_fra(s) ==
    cut_at(s, find(lower(s), "sendt fra min "))

\* for p in reply_patterns: cut at the match of p
cut_replies(s) ==
    LET t == cut_at(s, search_norwegian_reply(s))
    IN  cut_at(t, search_english_reply(t))

\* full_email.replace("*", "")
remove_stars(s) ==
    replace(s, "*", "")

\* remove_trailing_text without the "Sent from my ..." pass
remove_trailing_text_keeping_signature(full_email) ==
    remove_stars(cut_replies(cut_sendt_fra(cut_disclaimer(full_email))))

remove_trailing_text(full_email) ==
    remove_stars(cut_replies(cut_sendt_fra(cut_sent_from(cut_disclaimer(full_email)))))

\* ------------------------------------------------------------------------
\* The batch loop: helpers
\* ------------------------------------------------------------------------

\* the k-th path that Path(PDF_DIR).rglob("*.pdf") yields, as f"{pdf_file}"
path_of(k) ==
    "pdfs/" \o At(DigitChars, k) \o ".pdf"

RECURSIVE basename(_)
\* os.path.basename: what follows the last "/"
basename(path) ==
    IF find(path, "/") = -1 THEN path
    ELSE basename(From_(path, find(path, "/") + 1))

\* the notice appended when pages were left out
PagesNotice ==
    "\n ** Pages has been removed, see source for all pages **"

\* the number of pages that are read: pdf.pages[:2]
PagesRead ==
    2

\* assemble with the notice appended from the second page on
assemble_noticing_from_two(h, pdf_file, pages) ==
    LET trimmed == remove_trailing_text(h.Content)
        content == IF h.Content # ""
                   THEN IF pages >= PagesRead THEN trimmed \o PagesNotice ELSE trimmed
                   ELSE h.Content
    IN  [Path |-> pdf_file, FileName |-> basename(pdf_file),
         From |-> h.From, To |-> h.To, Sent |-> h.Sent,
         Subject |-> h.Subject, Content |-> content]

\* the body of the loop from "email["Path"] = pdf_file" to the append:
\* the record that is appended to emails
assemble(h, pdf_file, pages) ==
    LET trimmed == remove_trailing_text(h.Content)
        content == IF h.Content # ""
                   THEN IF pages > PagesRead THEN trimmed \o PagesNotice ELSE trimmed
                   ELSE h.Content
    IN  [Path |-> pdf_file, FileName |-> basename(pdf_file),
         From |-> h.From, To |-> h.To, Sent |-> h.Sent,
         Subject |-> h.Subject, Content |-> content]

\* insert_desc without reverse=True: ascending order
insert_asc(es, e) ==
    LET n == Cardinality({ i \in 1..Len(es) : ~ StrLess(e.Sent, es[i].Sent) })
    IN  SubSeq(es, 1, n) \o << e >> \o SubSeq(es, n + 1, Len(es))

\* where sorted(..., reverse=True) puts e among the already sorted es: after
\* every element whose key is greater than or equal to the key of e
insert_desc(es, e) ==
    LET n == Cardinality({ i \in 1..Len(es) : ~ StrLess(es[i].Sent, e.Sent) })
    IN  SubSeq(es, 1, n) \o << e >> \o SubSeq(es, n + 1, Len(es))

RECURSIVE sorted_desc(_)
\* sorted(emails, key=lambda email: email["Sent"], reverse=True): stable
sorted_desc(es) ==
    IF es = << >> THEN << >>
    ELSE insert_desc(sorted_desc(SubSeq(es, 1, Len(es) - 1)), es[Len(es)])

\* fieldnames of the csv.DictWriter
FieldNames ==
    << "Path", "FileName", "From", "To", "Sent", "Subject", "Content" >>

\* writer.writerow(email): the values of the record in the order of fieldnames
csv_row(e) ==
    << e.Path, e.FileName, e.From, e.To, e.Sent, e.Subject, e.Content >>

csv_rows(es) ==
    [i \in 1..Len(es) |-> csv_row(es[i])]

\* ------------------------------------------------------------------------
\* Inputs and bounds
\* ------------------------------------------------------------------------

\* the longest text, in lines, that parse_first_email is run on
MaxLines ==
    4

\* the lines the texts are made of
Vocabulary ==
    { "from: Kronprinsessen",
      "From:",
      "To: Bob",
      "Sent: Jan 5 2024 10:00",
      "Date: unknown",
      "Subject: den som skrev",
      "Hello=20 there",
      "den 3. mars kl. 10 skrev",
      "  " }

\* the lines the texts of mails with a disclaimer are made of
DisclaimerVocabulary ==
    { "From: J Epstein",
      "To: Bob",
      "Sent: Mar 3 2023 09:30",
      "Subject: The information contained in this communication is",
      "*****************************" }

Texts ==
    UNION { [1..n -> Vocabulary] \cup [1..n -> DisclaimerVocabulary] : n \in 0..MaxLines }

\* the most pieces a body given to remove_trailing_text is made of
MaxFrags ==
    3

\* the pieces the bodies are made of
Fragments ==
    { "hi ",
      "Please note ",
      "The information contained in this ",
      "Sent from my ",
      "Sendt fra min ",
      "Sent ",
      "from my ",
      "*",
      "Den 3. kl. 10 skrev ",
      "On Mon Bob wrote: " }

RECURSIVE concat(_)
concat(seq) ==
    IF seq = << >> THEN "" ELSE seq[1] \o concat(Tail(seq))

Bodies ==
    { concat(f) : f \in UNION { [1..n -> Fragments] : n \in 0..MaxFrags } }

\* the most documents in PDF_DIR
MaxDocs ==
    3

\* the most pages of a document
MaxPages ==
    3

\* the texts of the first two pages of the documents in PDF_DIR
DocTexts ==
    { << >>,
      << "From: Alice", "To: Bob", "Sent: Jan 5 2024 10:00", "Subject: Hi",
         "Hello there", "Sent from my iPhone" >>,
      << "Date: unknown", "To: Bob", "From: J Epstein", "Call me",
         "*****************************", "J Epstein" >>,
      << "From: Alice", "To: Bob", "Subject: Hi", "Hello there" >>,
      << "To: Bob", "From: Carol", "Sent: Mar 3 2023 09:30", "Hello *Bob*" >>,
      << "From: Dan", "Date: 5 Jan 2024 12:00 +0200", "To: Bob" >> }

\* ------------------------------------------------------------------------
\* State
\* ------------------------------------------------------------------------

VARIABLES
    pc,             \* the position of the running code
    lines,          \* parse_first_email: text.splitlines()
    idx,            \* parse_first_email: the number of lines the loop has taken
    headers,        \* parse_first_email: the dict headers
    result,         \* parse_first_email: the returned value
    body,           \* remove_trailing_text: the argument of the call
    full_email,     \* remove_trailing_text: the local full_email
    pattern,        \* remove_trailing_text: the position in reply_patterns
    emails,         \* the list emails
    failed,         \* the list failed
    total_emails,   \* the counter total_emails
    sorted_emails,  \* the name sorted_emails: None while it is not bound
    csv,            \* the rows of CSV_FILE
    stats           \* the content of STATS_FILE: None while it is not written

vars ==
    << pc, lines, idx, headers, result, body, full_email, pattern,
       emails, failed, total_emails, sorted_emails, csv, stats >>

scan_vars ==
    << lines, idx, headers, result >>

trim_vars ==
    << body, full_email, pattern >>

batch_vars ==
    << emails, failed, total_emails, sorted_emails, csv, stats >>

ScanIdle ==
    lines = << >> /\ idx = 0 /\ headers = EmptyHeaders /\ result = None

TrimIdle ==
    body = "" /\ full_email = "" /\ pattern = 0

BatchIdle ==
    /\ emails = << >>
    /\ failed = << >>
    /\ total_emails = 0
    /\ sorted_emails = None
    /\ csv = << >>
    /\ stats = None

\* ------------------------------------------------------------------------
\* parse_first_email, line by line
\* ------------------------------------------------------------------------

InitScan ==
    /\ pc = "scan"
    /\ lines \in Texts \cup DocTexts
    /\ idx = 0
    /\ headers = EmptyHeaders
    /\ result = None
    /\ TrimIdle
    /\ BatchIdle

\* one iteration of "for line in lines"
ScanLine ==
    /\ pc = "scan"
    /\ idx < Len(lines)
    /\ \E r \in { scan_line(headers, lines[idx + 1]) } :
          /\ headers' = r.headers
          /\ pc' = IF r.stop THEN "break" ELSE "scan"
    /\ idx' = idx + 1
    /\ UNCHANGED << lines, result, trim_vars, batch_vars >>

\* the code after the loop, reached at the end of the lines or by break
ScanReturn ==
    /\ \/ pc = "scan" /\ idx = Len(lines)
       \/ pc = "break"
    /\ result' = scan_result(headers)
    /\ pc' = "returned"
    /\ UNCHANGED << lines, idx, headers, trim_vars, batch_vars >>

NextScan ==
    ScanLine \/ ScanReturn

SpecScan ==
    InitScan /\ [][NextScan]_vars

\* ------------------------------------------------------------------------
\* remove_trailing_text, pass by pass
\* ------------------------------------------------------------------------

InitTrim ==
    /\ pc = "disclaimer"
    /\ body \in Bodies
    /\ full_email = body
    /\ pattern = 0
    /\ ScanIdle
    /\ BatchIdle

CutDisclaimer ==
    /\ pc = "disclaimer"
    /\ full_email' = cut_disclaimer(full_email)
    /\ pc' = "sent_from"
    /\ UNCHANGED << body, pattern, scan_vars, batch_vars >>

CutSentFrom ==
    /\ pc = "sent_from"
    /\ full_email' = cut_sent_from(full_email)
    /\ pc' = "sendt_fra"
    /\ UNCHANGED << body, pattern, scan_vars, batch_vars >>

CutSendtFra ==
    /\ pc = "sendt_fra"
    /\ full_email' = cut_sendt_fra(full_email)
    /\ pc' = "replies"
    /\ UNCHANGED << body, pattern, scan_vars, batch_vars >>

\* one iteration of "for p in reply_patterns"
CutReply ==
    /\ pc = "replies"
    /\ full_email' = IF pattern = 0
                     THEN cut_at(full_email, search_norwegian_reply(full_email))
                     ELSE cut_at(full_email, search_english_reply(full_email))
    /\ pattern' = pattern + 1
    /\ pc' = IF pattern = 0 THEN "replies" ELSE "stars"
    /\ UNCHANGED << body, scan_vars, batch_vars >>

RemoveStars ==
    /\ pc = "stars"
    /\ full_email' = remove_stars(full_email)
    /\ pc' = "trimmed"
    /\ UNCHANGED << body, pattern, scan_vars, batch_vars >>

NextTrim ==
    CutDisclaimer \/ CutSentFrom \/ CutSendtFra \/ CutReply \/ RemoveStars

SpecTrim ==
    InitTrim /\ [][NextTrim]_vars

\* ------------------------------------------------------------------------
\* The batch: the loop over the documents, the CSV file, the statistics
\* ------------------------------------------------------------------------

Init ==
    /\ pc = "loop"
    /\ ScanIdle
    /\ TrimIdle
    /\ BatchIdle

\* ProcessPdf with total_emails counted after the test of the result, so
\* that only the documents that gave a record are counted
ProcessPdf_counting_records(text, pages) ==
    /\ pc = "loop"
    /\ Len(emails) + Len(failed) < MaxDocs
    /\ lines' = text
    /\ \E scan \in { scan_all(text) } :
          /\ idx' = scan.idx
          /\ headers' = scan.headers
          /\ result' = scan_result(scan.headers)
    /\ IF result' = None
       THEN /\ failed' = Append(failed, path_of(Len(emails) + Len(failed) + 1))
            /\ UNCHANGED << emails, sorted_emails, total_emails >>
       ELSE /\ total_emails' = total_emails + 1
            /\ emails' = Append(emails, assemble(result'[1], path_of(Len(emails) + Len(failed) + 1), pages))
            /\ sorted_emails' = Some(sorted_desc(emails'))
            /\ UNCHANGED failed
    /\ UNCHANGED << pc, csv, stats, trim_vars >>

\* one iteration of "for pdf_file in Path(PDF_DIR).rglob("*.pdf")" on a
\* document with the given text on its first two pages; lines, idx, headers
\* and result are left as parse_first_email leaves them
ProcessPdf(text, pages) ==
    /\ pc = "loop"
    /\ total_emails < MaxDocs
    /\ total_emails' = total_emails + 1
    /\ lines' = text
    /\ \E scan \in { scan_all(text) } :
          /\ idx' = scan.idx
          /\ headers' = scan.headers
          /\ result' = scan_result(scan.headers)
    /\ IF result' = None
       THEN /\ failed' = Append(failed, path_of(total_emails + 1))
            /\ UNCHANGED << emails, sorted_emails >>
       ELSE /\ emails' = Append(emails, assemble(result'[1], path_of(total_emails + 1), pages))
            /\ sorted_emails' = Some(sorted_desc(emails'))
            /\ UNCHANGED failed
    /\ UNCHANGED << pc, csv, stats, trim_vars >>

\* rglob yields no further document
EndOfPdfs ==
    /\ pc = "loop"
    /\ pc' = "save"
    /\ UNCHANGED << scan_vars, trim_vars, batch_vars >>

\* "Save CSV": the header row, then a row per element of sorted_emails;
\* reading the name sorted_emails while it is unbound raises NameError
SaveCsv ==
    /\ pc = "save"
    /\ IF sorted_emails = None
       THEN /\ csv' = << FieldNames >>
            /\ pc' = "crashed"
       ELSE /\ csv' = << FieldNames >> \o csv_rows(sorted_emails[1])
            /\ pc' = "stats"
    /\ UNCHANGED << emails, failed, total_emails, sorted_emails, stats,
                    scan_vars, trim_vars >>

\* stats = {...} and json.dump(stats, f)
WriteStats ==
    /\ pc = "stats"
    /\ stats' = Some([successfull |-> Len(sorted_emails[1]),
                      total |-> total_emails,
                      failed |-> failed])
    /\ pc' = "done"
    /\ UNCHANGED << emails, failed, total_emails, sorted_emails, csv,
                    scan_vars, trim_vars >>

Next ==
    \/ \E text \in DocTexts, pages \in 1..MaxPages : ProcessPdf(text, pages)
    \/ EndOfPdfs
    \/ SaveCsv
    \/ WriteStats

Spec ==
    Init /\ [][Next]_vars

\* ------------------------------------------------------------------------
\* Properties of parse_first_email
\* ------------------------------------------------------------------------

\* the i-th line as the loop sees it, and its lower-case form
LineAt(i) ==
    strip(lines[i])

LowAt(i) ==
    lower(strip(lines[i]))

\* the first of the lines the loop has taken that passes the test, 0 if none
FirstTaken(Test(_)) ==
    IF \E i \in 1..idx : Test(LowAt(i))
    THEN CHOOSE i \in 1..idx : Test(LowAt(i)) /\ \A j \in 1..(i - 1) : ~ Test(LowAt(j))
    ELSE 0

\* the i-th line starts with the keyword, whatever the case of its letters
StartsAt(i, keyword) ==
    lower(Slice(LineAt(i), 0, Len(keyword))) = keyword

\* a line among the first n that carries a non-empty value for the header
HasFromValue(n) ==
    \E i \in 1..n : StartsAt(i, "from:") /\ from_value(LineAt(i)) # ""

HasToValue(n) ==
    \E i \in 1..n : StartsAt(i, "to:") /\ to_value(LineAt(i)) # ""

HasSentValue(n) ==
    \E i \in 1..n :
        /\ StartsAt(i, "sent:") \/ StartsAt(i, "date:")
        /\ raw_date(LineAt(i)) # ""

\* C1: when parse_first_email returns, each of From, To, Sent and Subject
\* holds the value carried by the first scanned line that starts with the
\* keyword of that header (sent: and date: both count for Sent).
C1_FirstOccurrenceWins ==
    pc = "returned" =>
        /\ FirstTaken(is_from_line) # 0 =>
              headers.From = from_value(LineAt(FirstTaken(is_from_line)))
        /\ FirstTaken(is_to_line) # 0 =>
              headers.To = to_value(LineAt(FirstTaken(is_to_line)))
        /\ FirstTaken(is_sent_line) # 0 =>
              headers.Sent = sent_value(LineAt(FirstTaken(is_sent_line)))
        /\ FirstTaken(is_subject_line) # 0 =>
              headers.Subject = subject_value(LineAt(FirstTaken(is_subject_line)))

\* C2 as stated: whenever a From line, a To line and a Sent/Date line, each
\* with a value, occur anywhere in the text, parse_first_email returns a
\* record.
C2_AnyPositionSucceeds ==
    ( /\ pc = "returned"
      /\ HasFromValue(Len(lines))
      /\ HasToValue(Len(lines))
      /\ HasSentValue(Len(lines)) ) => result # None

\* C2 amended: whenever a From line, a To line and a Sent/Date line, each
\* with a value, occur in any order among the lines taken before a stop rule
\* ends the scan, parse_first_email returns a record.
C2_ScannedHeadersSucceed ==
    ( /\ pc = "returned"
      /\ HasFromValue(idx)
      /\ HasToValue(idx)
      /\ HasSentValue(idx) ) => result # None

\* a record is returned for a text whose Sent/Date line precedes its To line
\* and whose To line precedes its From line
C2_Witness ==
    /\ pc = "returned"
    /\ result # None
    /\ FirstTaken(is_sent_line) # 0
    /\ FirstTaken(is_sent_line) < FirstTaken(is_to_line)
    /\ FirstTaken(is_to_line) < FirstTaken(is_from_line)

\* C3: Content is empty while one of From, To, Sent is empty, and Content
\* only ever grows at its end, by a step that starts with From, To and Sent
\* all filled: what it holds comes from lines after the last of them was
\* filled.
C3_ContentOnlyAfterHeaders ==
    /\ []((headers.From = "" \/ headers.To = "" \/ headers.Sent = "") =>
            headers.Content = "")
    /\ [][headers'.Content # headers.Content =>
            /\ headers.From # "" /\ headers.To # "" /\ headers.Sent # ""
            /\ pc = "scan"
            /\ idx' = idx + 1
            /\ startswith(headers'.Content, headers.Content)]_vars

\* a scan that has put a line into Content
C3_Witness ==
    /\ pc = "returned"
    /\ headers.Content # ""
    /\ idx = Len(lines)

\* the next line of the scan starts with a header keyword whose field is
\* still empty
NextLineTaken ==
    \/ headers.From = "" /\ StartsAt(idx + 1, "from:")
    \/ headers.To = "" /\ StartsAt(idx + 1, "to:")
    \/ headers.Sent = "" /\ (StartsAt(idx + 1, "sent:") \/ StartsAt(idx + 1, "date:"))
    \/ headers.Subject = "" /\ StartsAt(idx + 1, "subject:")

\* From holds the marker of the crown princess and the next line of the scan
\* contains both "den" and "skrev"
ReplyLineNext ==
    /\ pc = "scan"
    /\ idx < Len(lines)
    /\ find(lower(headers.From), "kronprinsessen") # -1
    /\ find(LowAt(idx + 1), "den") # -1
    /\ find(LowAt(idx + 1), "skrev") # -1

\* once the loop is left by break, no further line is taken and the result
\* is made of the headers as they were at the break
AfterBreak ==
    pc = "break" =>
        /\ headers' = headers
        /\ idx' = idx
        /\ result' \in { None, Some(headers) }

\* C9 as stated: when From holds the marker of the crown princess and the
\* line contains both "den" and "skrev", the scan stops at that line, which
\* changes neither Content nor a header field, and no later line is scanned.
C9_ReplyLineStops ==
    /\ [][ReplyLineNext => (pc' = "break" /\ headers' = headers)]_vars
    /\ [][AfterBreak]_vars

\* C9 amended: when From holds the marker of the crown princess and a line
\* that is not taken as the value of a still empty header field contains
\* both "den" and "skrev", the scan stops at that line, which changes
\* neither Content nor a header field, and no later line is scanned.
C9_UntakenReplyLineStops ==
    /\ [][(ReplyLineNext /\ ~ NextLineTaken) =>
            (pc' = "break" /\ headers' = headers)]_vars
    /\ [][AfterBreak]_vars

\* the scan of a mail of the crown princess has stopped at a reply line and
\* has left lines unscanned
C9_Witness ==
    /\ pc = "returned"
    /\ 0 < idx /\ idx < Len(lines)
    /\ find(lower(headers.From), "kronprinsessen") # -1
    /\ find(LowAt(idx), "den") # -1
    /\ find(LowAt(idx), "skrev") # -1
    /\ headers.To # ""

\* ------------------------------------------------------------------------
\* Properties of remove_trailing_text
\* ------------------------------------------------------------------------

\* C5 as stated: applying remove_trailing_text to its own result changes
\* nothing.
C5_TrimIdempotent ==
    pc = "trimmed" => remove_trailing_text(full_email) = full_email

\* C5 amended: for a body that holds no asterisk, applying
\* remove_trailing_text to its own result changes nothing.
C5_TrimIdempotentWithoutStars ==
    (pc = "trimmed" /\ find(body, "*") = -1) =>
        remove_trailing_text(full_email) = full_email

\* a body without asterisk has been cut, and something is left of it
C5_Witness ==
    /\ pc = "trimmed"
    /\ find(body, "*") = -1
    /\ full_email # body
    /\ full_email # ""

\* the body holds "please note" and, after it, the disclaimer phrase
PleaseNoteBeforeDisclaimer ==
    /\ find(lower(body), "please note") # -1
    /\ find(lower(body), "the information contained in this") # -1
    /\ find(lower(body), "please note") < find(lower(body), "the information contained in this")

\* the text of the body before "please note", and that text without asterisks
BeforePleaseNote ==
    Slice(body, 0, find(lower(body), "please note"))

BeforePleaseNoteBare ==
    replace(BeforePleaseNote, "*", "")

\* none of the passes after the disclaimer pass finds something in t
NoLaterMarker(t) ==
    /\ find(lower(t), "sent from my ") = -1
    /\ find(lower(t), "sendt fra min ") = -1
    /\ search_norwegian_reply(t) = -1
    /\ search_english_reply(t) = -1

\* C8 as stated: when "please note" occurs before the disclaimer phrase, the
\* result is exactly the text before "please note", asterisks removed,
\* whatever other markers the body holds.
C8_CutAtPleaseNote ==
    (pc = "trimmed" /\ PleaseNoteBeforeDisclaimer) =>
        full_email = BeforePleaseNoteBare

\* C8 amended: when "please note" occurs before the disclaimer phrase, the
\* disclaimer pass cuts at the start of "please note"; the result is the
\* text before "please note", asterisks removed, when no later pass finds a
\* marker in that text, and a prefix of it otherwise.
C8_CutAtPleaseNoteThenLaterPasses ==
    /\ []((pc = "trimmed" /\ PleaseNoteBeforeDisclaimer) =>
            /\ startswith(BeforePleaseNoteBare, full_email)
            /\ NoLaterMarker(BeforePleaseNote) => full_email = BeforePleaseNoteBare)
    /\ [][(pc = "disclaimer" /\ PleaseNoteBeforeDisclaimer) =>
            full_email' = BeforePleaseNote]_vars

\* a body has been cut at "please note" and nowhere before it
C8_Witness ==
    /\ pc = "trimmed"
    /\ PleaseNoteBeforeDisclaimer
    /\ NoLaterMarker(BeforePleaseNote)
    /\ full_email = BeforePleaseNoteBare
    /\ full_email # ""

\* ------------------------------------------------------------------------
\* Properties of the batch
\* ------------------------------------------------------------------------

\* the run has ended: normally, or by an exception that nothing catches
Ended ==
    pc \in { "done", "crashed" }

\* C4: parse_first_email returns None exactly when From, To or Sent is empty
\* at the end of the scan; a document for which it returns None is appended
\* to failed and not to emails, any other document to emails and not to
\* failed; every record in emails has From, To and Sent filled.
C4_FailureIffMissingHeader ==
    /\ [](/\ result = None <=>
                (headers.From = "" \/ headers.To = "" \/ headers.Sent = "")
          /\ \A i \in 1..Len(emails) :
                emails[i].From # "" /\ emails[i].To # "" /\ emails[i].Sent # "")
    /\ [][total_emails' # total_emails =>
            IF headers'.From = "" \/ headers'.To = "" \/ headers'.Sent = ""
            THEN /\ failed' = Append(failed, path_of(total_emails'))
                 /\ emails' = emails
            ELSE /\ Len(emails') = Len(emails) + 1
                 /\ emails'[Len(emails')].Path = path_of(total_emails')
                 /\ failed' = failed]_vars

\* an empty text has just failed after another document gave a record
C4_Witness ==
    /\ result = None
    /\ lines = << >>
    /\ failed # << >>
    /\ failed[Len(failed)] = path_of(total_emails)
    /\ emails # << >>

\* C6: a run in which documents have failed, be it all of them, still ends
\* with the CSV file written and with the statistics holding the number of
\* records, the number of documents and the failed documents.
C6_RunAlwaysCompletes ==
    (Ended /\ failed # << >>) =>
        /\ csv # << >>
        /\ stats = Some([successfull |-> Len(emails),
                         total |-> total_emails,
                         failed |-> failed])

\* C7: with no document at all, the run ends with a CSV file that holds the
\* header row only and with the statistics 0, 0 and the empty list.
C7_EmptyDirectory ==
    (Ended /\ total_emails = 0) =>
        /\ csv = << FieldNames >>
        /\ stats = Some([successfull |-> 0, total |-> 0, failed |-> << >>])

\* the number of times x occurs in the sequence seq
Count(seq, x) ==
    Cardinality({ i \in 1..Len(seq) : seq[i] = x })

IsPermutation(a, b) ==
    /\ Len(a) = Len(b)
    /\ \A i \in 1..Len(a) : Count(a, a[i]) = Count(b, a[i])

\* C10: once the CSV file is written, its rows after the header row are a
\* permutation of the records in emails, and their Sent column never
\* increases from one row to the next under string comparison.
C10_RowsAreSortedRecords ==
    pc \in { "stats", "done", "crashed" } =>
        /\ csv[1] = FieldNames
        /\ IsPermutation(Tail(csv), csv_rows(emails))
        /\ \A i \in 1..(Len(csv) - 2) : ~ StrLess(csv[i + 1][5], csv[i + 2][5])

\* the CSV file holds several records in another order than emails, and the
\* last document of the run had failed
C10_Witness ==
    /\ pc = "done"
    /\ Len(emails) >= 2
    /\ result = None
    /\ Tail(csv) # csv_rows(emails)

\* ------------------------------------------------------------------------
\* Properties of a document from its text to its record
\* ------------------------------------------------------------------------

\* the headers From, To, Sent and Subject, one body line and the line of a
\* mobile signature
SignedMail ==
    << "From: Alice", "To: Bob", "Sent: Jan 5 2024 10:00", "Subject: Hi",
       "Hello there", "Sent from my iPhone" >>

\* the step is an iteration of the loop over the documents, on a document
\* with the given number of pages, that appends a record to emails: what
\* ProcessPdf does with a text that parse_first_email returns a record for
RecordAppended(pages) ==
    /\ pc = "loop"
    /\ total_emails' = total_emails + 1
    /\ result' # None
    /\ emails' = Append(emails, assemble(result'[1], path_of(total_emails'), pages))

\* C11 as stated: the record of the document with the lines of SignedMail,
\* all of its pages read, has the normalized Sent and the Content
\* "Hello there", with nothing else in it.
C11_ContentIsBodyOnly ==
    [][\A pages \in 1..PagesRead :
          (lines' = SignedMail /\ RecordAppended(pages)) =>
          /\ emails'[Len(emails')].Sent = "2024-01-05T10:00:00+00:00"
          /\ emails'[Len(emails')].Content = "Hello there"]_vars

\* C11 amended: the record of the document with the lines of SignedMail has
\* the normalized Sent, and its Content is the separator " \n", the body
\* line and the separator that was put before the signature line, followed
\* by the notice of omitted pages when not all pages were read: nothing of
\* the signature line is left in it, and without the surrounding white
\* space the part before the notice is "Hello there".
C11_ContentIsBodyWithSeparators ==
    [][\A pages \in 1..MaxPages :
          (lines' = SignedMail /\ RecordAppended(pages)) =>
          /\ emails'[Len(emails')].Sent = "2024-01-05T10:00:00+00:00"
          /\ emails'[Len(emails')].Content =
                " \nHello there \n" \o (IF pages > PagesRead THEN PagesNotice ELSE "")
          /\ strip(Slice(emails'[Len(emails')].Content, 0, 15)) = "Hello there"]_vars

\* the document with the lines of SignedMail has just given a record whose
\* Content was cut at the signature line
C11_Witness ==
    /\ pc = "loop"
    /\ lines = SignedMail
    /\ result # None
    /\ result[1].Content = " \nHello there \nSent from my iPhone"
    /\ emails # << >>
    /\ emails[Len(emails)].Path = path_of(total_emails)
    /\ emails[Len(emails)].Content = " \nHello there \n"

\* the Content ends with the notice of omitted pages
CarriesNotice(content) ==
    /\ Len(content) >= Len(PagesNotice)
    /\ Slice(content, Len(content) - Len(PagesNotice), Len(content)) = PagesNotice

\* C12 as stated: the record of a document carries the notice of omitted pages at the
\* end of its Content exactly when the document has more pages than the 2
\* that were read.
C12_NoticeIffPagesOmitted ==
    [][\A pages \in 1..MaxPages :
          RecordAppended(pages) =>
              (CarriesNotice(emails'[Len(emails')].Content) <=> pages > PagesRead)]_vars

\* C12 amended: the record of a document carries the notice of omitted
\* pages at the end of its Content exactly when the document has more pages
\* than the 2 that were read and the scan has put something into Content; a
\* record whose extracted Content is empty keeps the empty Content.
C12_NoticeIffPagesOmittedFromContent ==
    [][\A pages \in 1..MaxPages :
          RecordAppended(pages) =>
              /\ CarriesNotice(emails'[Len(emails')].Content) <=>
                    (pages > PagesRead /\ result'[1].Content # "")
              /\ result'[1].Content = "" => emails'[Len(emails')].Content = ""]_vars

\* three records: one that carries the notice, one with a Content that does
\* not carry it, and one whose Content is empty
C12_Witness ==
    /\ pc = "loop"
    /\ Len(emails) = 3
    /\ CarriesNotice(emails[1].Content)
    /\ emails[2].Content # "" /\ ~ CarriesNotice(emails[2].Content)
    /\ emails[3].Content = ""

\* ------------------------------------------------------------------------
\* Further properties of parse_first_email
\* ------------------------------------------------------------------------

\* the next line of the scan is the first Sent or Date line that carries a
\* value
SentLineNext ==
    /\ pc = "scan"
    /\ idx < Len(lines)
    /\ StartsAt(idx + 1, "sent:") \/ StartsAt(idx + 1, "date:")
    /\ headers.Sent = ""
    /\ raw_date(LineAt(idx + 1)) # ""

\* the normalized form of the date when the parser finds one, else the date
\* as it was written
NormalizedOrRaw(raw) ==
    IF \E p \in ParsedDates : p[1] = raw
    THEN (CHOOSE p \in ParsedDates : p[1] = raw)[2]
    ELSE raw

\* C13: the first Sent or Date line with a value sets Sent, and nothing
\* else, to the normalized date when the date can be parsed and to the raw
\* cleaned string when it cannot; a filled Sent is never replaced; and a
\* scan that ends with From, To and such a Sent filled returns a record.
C13_UnparsedDateKept ==
    /\ [][SentLineNext =>
            /\ headers' = [headers EXCEPT
                              !.Sent = NormalizedOrRaw(raw_date(LineAt(idx + 1)))]
            /\ pc' = "scan"]_vars
    /\ [][headers.Sent # "" => headers'.Sent = headers.Sent]_vars
    /\ []((pc = "returned" /\ headers.From # "" /\ headers.To # "" /\ headers.Sent # "")
            => result = Some(headers))

\* a record is returned whose Sent is the unparsed "unknown", after a later
\* line with a date that can be parsed was scanned
C13_Witness ==
    /\ pc = "returned"
    /\ result # None
    /\ result[1].Sent = "unknown"
    /\ \E i \in 1..idx, j \in 1..idx :
          /\ i < j
          /\ lines[i] = "Date: unknown"
          /\ lines[j] = "Sent: Jan 5 2024 10:00"

\* the next line of the scan starts with a header keyword whose field is
\* already set
DuplicateHeaderNext ==
    /\ pc = "scan"
    /\ idx < Len(lines)
    /\ \/ StartsAt(idx + 1, "from:") /\ headers.From # ""
       \/ StartsAt(idx + 1, "to:") /\ headers.To # ""
       \/ (StartsAt(idx + 1, "sent:") \/ StartsAt(idx + 1, "date:")) /\ headers.Sent # ""
       \/ StartsAt(idx + 1, "subject:") /\ headers.Subject # ""

\* one of the two stop rules matches the next line of the scan
StopRuleNext ==
    \/ princess_stop(lower(headers.From), LowAt(idx + 1))
    \/ epstein_stop(lower(headers.From), LowAt(idx + 1))

\* C14 as stated: a line that starts with a header keyword whose field is
\* already set changes no header field and is not appended to Content.
C14_DuplicateHeaderIgnored ==
    [][DuplicateHeaderNext => headers' = headers]_vars

\* C14 amended: a line that starts with a header keyword whose field is
\* already set changes none of From, To, Sent and Subject; it ends the scan
\* when a stop rule matches it; otherwise it is appended to Content, after
\* the separator, when From, To and Sent are all filled, and changes nothing
\* while one of them is empty.
C14_DuplicateHeaderIsBodyLine ==
    [][DuplicateHeaderNext =>
          /\ headers'.From = headers.From
          /\ headers'.To = headers.To
          /\ headers'.Sent = headers.Sent
          /\ headers'.Subject = headers.Subject
          /\ IF StopRuleNext
             THEN pc' = "break" /\ headers'.Content = headers.Content
             ELSE /\ pc' = "scan"
                  /\ headers'.Content =
                        IF headers.From # "" /\ headers.To # "" /\ headers.Sent # ""
                        THEN headers.Content \o " \n" \o clean_text(LineAt(idx + 1))
                        ELSE headers.Content]_vars

\* a second To line has gone into the Content of a returned record
C14_Witness ==
    /\ pc = "returned"
    /\ result # None
    /\ result[1].To = "Bob"
    /\ find(result[1].Content, " \nTo: Bob") # -1

\* the next line of the scan is not blank, and From and the line meet the
\* condition of one of the two stop rules
SenderStopNext ==
    /\ pc = "scan"
    /\ idx < Len(lines)
    /\ LineAt(idx + 1) # ""
    /\ \/ /\ find(lower(headers.From), "kronprinsessen") # -1
          /\ find(LowAt(idx + 1), "den") # -1
          /\ find(LowAt(idx + 1), "skrev") # -1
       \/ /\ find(lower(headers.From), "epstein") # -1
          /\ \/ find(LowAt(idx + 1), "*****************************") # -1
             \/ find(LowAt(idx + 1), "the information contained in this communication is") # -1

\* C15 as stated: whenever From holds a sender marker and the line meets
\* that sender's stop condition, the scan stops at that line, whatever the
\* line starts with and whichever headers are filled.
C15_StopRulesOnEveryLine ==
    [][SenderStopNext => pc' = "break"]_vars

\* C15 amended: whenever From holds a sender marker and a line that is not
\* taken as the value of a still empty header field meets that sender's stop
\* condition, the scan stops at that line and the line changes nothing,
\* whether or not the line starts with the keyword of a header that is
\* already set and whichever headers are filled.
C15_StopRulesOnUntakenLines ==
    [][(SenderStopNext /\ ~ NextLineTaken) =>
          (pc' = "break" /\ headers' = headers /\ idx' = idx + 1)]_vars

\* the scan of a mail with the disclaimer marker in From has stopped, with
\* To still empty, at a second Subject line that holds the disclaimer phrase
C15_Witness ==
    /\ pc = "break"
    /\ find(lower(headers.From), "epstein") # -1
    /\ StartsAt(idx, "subject:")
    /\ headers.Subject # ""
    /\ headers.To = ""
    /\ find(LowAt(idx), "the information contained in this communication is") # -1

\* the next line of the scan starts with a header keyword
KeywordLineNext ==
    \/ StartsAt(idx + 1, "from:")
    \/ StartsAt(idx + 1, "to:")
    \/ StartsAt(idx + 1, "sent:")
    \/ StartsAt(idx + 1, "date:")
    \/ StartsAt(idx + 1, "subject:")

\* Content after the next line of the scan, when that line is appended
ContentWithNextLine ==
    headers.Content \o " \n" \o clean_text(LineAt(idx + 1))

\* From, To and Sent are all filled; nothing is asked of Subject
MandatoryFilled ==
    headers.From # "" /\ headers.To # "" /\ headers.Sent # ""

\* C16 as stated: Content starts empty, each scanned line appends " \n" and
\* its cleaned text to Content exactly when it is not blank, does not start
\* with a header keyword, meets no stop rule and is scanned with From, To
\* and Sent all filled; no other step changes Content, and the returned
\* Content is the accumulated one.
C16_ContentIsPlainLines ==
    /\ [](idx = 0 => headers.Content = "")
    /\ [][(pc = "scan" /\ idx < Len(lines)) =>
            headers'.Content =
                IF /\ MandatoryFilled
                   /\ LineAt(idx + 1) # ""
                   /\ ~ KeywordLineNext
                   /\ ~ SenderStopNext
                THEN ContentWithNextLine
                ELSE headers.Content]_vars
    /\ [][pc # "scan" => headers'.Content = headers.Content]_vars
    /\ [](result # None => result[1].Content = headers.Content)

\* C16 amended: Content starts empty, each scanned line appends " \n" and
\* its cleaned text to Content exactly when it is not blank, is not taken as
\* the value of a still empty header field, meets no stop rule and is
\* scanned with From, To and Sent all filled, be Subject set or not; no
\* other step changes Content, and the returned Content is the accumulated
\* one.
C16_ContentIsUntakenLines ==
    /\ [](idx = 0 => headers.Content = "")
    /\ [][(pc = "scan" /\ idx < Len(lines)) =>
            headers'.Content =
                IF /\ MandatoryFilled
                   /\ LineAt(idx + 1) # ""
                   /\ ~ NextLineTaken
                   /\ ~ SenderStopNext
                THEN ContentWithNextLine
                ELSE headers.Content]_vars
    /\ [][pc # "scan" => headers'.Content = headers.Content]_vars
    /\ [](result # None => result[1].Content = headers.Content)

\* a record is returned whose Content holds two lines in the order of the
\* text
C16_Witness ==
    /\ pc = "returned"
    /\ lines = SignedMail
    /\ result # None
    /\ result[1].Content = " \nHello there \nSent from my iPhone"

\* ------------------------------------------------------------------------
\* Further properties of remove_trailing_text and of the batch
\* ------------------------------------------------------------------------

RECURSIVE Unstarred(_)
\* the characters of s other than "*", in their order
Unstarred(s) ==
    IF s = "" THEN ""
    ELSE (IF At(s, 0) = "*" THEN "" ELSE At(s, 0)) \o Unstarred(From_(s, 1))

\* C17: each truncation pass leaves a prefix of the text the pass before
\* left; the last pass deletes the asterisks and nothing else; the result
\* holds no asterisk and is a prefix of the body with its asterisks deleted,
\* which is the same as a prefix of the body with the asterisks deleted.
C17_PrefixWithoutStars ==
    /\ [][(pc = "disclaimer" \/ pc = "sent_from" \/ pc = "sendt_fra" \/ pc = "replies") =>
            /\ Len(full_email') <= Len(full_email)
            /\ full_email' = Slice(full_email, 0, Len(full_email'))]_vars
    /\ [][pc = "stars" => full_email' = Unstarred(full_email)]_vars
    /\ [](pc = "trimmed" =>
            /\ find(full_email, "*") = -1
            /\ Len(full_email) <= Len(Unstarred(body))
            /\ Slice(Unstarred(body), 0, Len(full_email)) = full_email)

\* a body that starts with an asterisk has been cut, and something is left
\* of it
C17_Witness ==
    /\ pc = "trimmed"
    /\ At(body, 0) = "*"
    /\ full_email # ""
    /\ full_email # Unstarred(body)

\* the paths of the records in emails
EmailPaths ==
    [i \in 1..Len(emails) |-> emails[i].Path]

\* C18: at every point between two documents and after the loop, emails and
\* failed together hold as many entries as documents were counted, and every
\* counted document is once in one of them; the statistics, once written,
\* hold a number of records and a list of failed documents that add up to
\* the total.
C18_CountsAddUp ==
    /\ Len(emails) + Len(failed) = total_emails
    /\ \A k \in 1..total_emails :
          Count(EmailPaths, path_of(k)) + Count(failed, path_of(k)) = 1
    /\ stats # None =>
          /\ stats[1].successfull + Len(stats[1].failed) = stats[1].total
          /\ stats[1].total = total_emails
          /\ stats[1].successfull = Len(emails)
          /\ stats[1].failed = failed

\* the statistics are written after a run in which a document failed before
\* another one gave a record
C18_Witness ==
    /\ pc = "done"
    /\ stats # None
    /\ stats[1].total = 3
    /\ stats[1].successfull = 2
    /\ failed = << path_of(1) >>

====
